---- MODULE Spec2Model ----
(***************************************************************************)
(* Model of the Infobip webhook of the AFMA WhatsApp bridge (src/app.py):  *)
(* the conversation-to-case correlation (MESSAGE_STORE, CASE_STORE,        *)
(* has_active_window, get_case_for_phone), the media attachment steps and  *)
(* the price record written from delivery receipts.                        *)
(*                                                                         *)
(* One webhook POST is a loop over the events of its payload.  The model   *)
(* keeps the position of the loop (pc, pending) and handles one event per  *)
(* step; the content of an event is drawn when the loop reaches it, which  *)
(* is when the code first reads it.  Time is counted in hours.  Writes to   *)
(* local files (cost_log.csv, the price cache) are taken to succeed.        *)
(***************************************************************************)
EXTENDS Integers, Sequences, FiniteSets, TLC

\* the webhook: stores, price file, position of the loop, and its record
VARIABLES MESSAGE_STORE, CASE_STORE, price_cache, pc, pending, sf_session,
          response, nextId, nEvents, last, ops, resolved, lastPositive

\* webhook requests served by concurrent threads
VARIABLES worker

\* a write of the price file in progress, and what a reader of it saw
VARIABLES writer, before, observed

\* the campaign: the background thread, its counters, report and history
VARIABLES camp_pc, camp_exc, route_resp, INFOBIP_API_KEY, fieldnames, source,
          rowsRead, total_with_number, total_ok, total_error, total_cost,
          report, sends, outcomes, history

webVars == <<MESSAGE_STORE, CASE_STORE, price_cache, pc, pending, sf_session,
             response, nextId, nEvents, last, ops, resolved, lastPositive>>

raceVars == <<worker>>

priceVars == <<writer, before, observed>>

campVars == <<camp_pc, camp_exc, route_resp, INFOBIP_API_KEY, fieldnames, source,
              rowsRead, total_with_number, total_ok, total_error, total_cost,
              report, sends, outcomes, history>>

\* a placeholder value, and what clean_placeholder made of it
VARIABLES value, cleaned, again, nCleaned

cleanVars == <<value, cleaned, again, nCleaned>>

vars == <<webVars, raceVars, priceVars, campVars, cleanVars>>

(* ------------------------------ bounds --------------------------------- *)

\* events handled over a whole run
MaxEvents == 2
\* events in one webhook payload
MaxBatch == 2
\* latest hour a well-formed timestamp can name
MaxHour == 3

\* rows of a campaign source
MaxRows == 3

\* characters of a placeholder value
MaxLen == 4

(* ----------------------------- constants ------------------------------- *)

\* CASE_WINDOW = timedelta(hours=2)
CASE_WINDOW == 2

Phones == {"p1", "p2"}

(* A receivedAt value as it arrives in the JSON payload:                   *)
(*   none  the key is absent (None)                                        *)
(*   bad   a string that is not in the format %Y-%m-%dT%H:%M:%S.%f%z       *)
(*   int   a JSON number (not a string)                                    *)
(*   ok    a well-formed string naming hour h                              *)
TsNone == [k |-> "none", h |-> 0]
TsBad == [k |-> "bad", h |-> 0]
TsInt == [k |-> "int", h |-> 0]
TsOk(h) == [k |-> "ok", h |-> h]
ValidTimestamps == {TsOk(h) : h \in 0..MaxHour}
Timestamps == {TsNone, TsBad, TsInt} \cup ValidTimestamps

(* The price object of a delivery receipt as it arrives: pricePerMessage   *)
(* (null, a number, or a string), currency and doneAt.                     *)
ReceiptPrices ==
  {<<"null", "EUR", "d2">>, <<"0", "EUR", "d2">>, <<"-1", "EUR", "d2">>,
   <<"s:abc", "EUR", "d2">>,
   <<"1", "USD", "d1">>, <<"1", "EUR", "d1">>, <<"2", "USD", "d2">>,
   <<"s:2", "USD", "d1">>}

AllKeys == {"price", "messageId", "to", "integrationType", "message"}

(* ------------------------- events of a payload ------------------------- *)

Msg(keys, from, ts, type, url, praw, cur, done) ==
  [keys |-> keys, from |-> from, receivedAt |-> ts, type |-> type,
   doc_url |-> url, pricePerMessage |-> praw, currency |-> cur,
   doneAt |-> done]

NoMsg == Msg({}, "p1", TsNone, "None", "None", "null", "USD", "d1")

\* delivery receipts: the triple price/messageId/to, with or without the
\* keys of a conversation message
ReceiptEvents ==
  {Msg({"price", "messageId", "to"}, "p1", TsOk(0), "TEXT", "None", pr[1], pr[2], pr[3]) :
     pr \in ReceiptPrices}
  \cup {Msg(AllKeys, "p1", TsOk(0), "DOCUMENT", "url", pr[1], pr[2], pr[3]) :
           pr \in {<<"0", "EUR", "d2">>, <<"1", "USD", "d1">>}}

\* status events without the triple and without integrationType or message
StatusEvents ==
  {Msg(ks, "p1", TsOk(0), "TEXT", "None", "1", "USD", "d1") :
     ks \in {{"integrationType"}, {"price", "messageId", "message"}}}

\* conversation messages: integrationType and message, not the full triple;
\* texts with every timestamp, documents with an early and a late one
TextEvents ==
  {Msg({"integrationType", "message"}, p, ts, "TEXT", "None", "1", "USD", "d1") :
     p \in Phones, ts \in Timestamps}

DocumentEvents ==
  {Msg({"integrationType", "message"}, p, ts, "DOCUMENT", "url", "1", "USD", "d1") :
     p \in Phones, ts \in {TsOk(0), TsOk(MaxHour)}}
  \cup {Msg({"integrationType", "message"}, "p1", TsOk(0), "DOCUMENT", "None", "1", "USD", "d1")}

MessageEvents == TextEvents \cup DocumentEvents

Events == ReceiptEvents \cup StatusEvents \cup MessageEvents

(* ------------------------------ helpers -------------------------------- *)

\* datetime.strptime raises ValueError on a malformed string (caught, None)
\* and TypeError on a value that is not a string (not caught)
parse_infobip_timestamp(ts) ==
  IF ts.k = "none" THEN [r |-> "None", v |-> 0]
  ELSE IF ts.k = "int" THEN [r |-> "TypeError", v |-> 0]
  ELSE IF ts.k = "bad" THEN [r |-> "None", v |-> 0]
  ELSE [r |-> "dt", v |-> ts.h]

\* variant: the window is measured from the entry before the most recent one
has_active_window_Previous(store, phone, current_ts_str) ==
  LET messages == store[phone] IN
  IF messages = <<>> THEN "False"
  ELSE
    LET current_ts == parse_infobip_timestamp(current_ts_str) IN
    IF current_ts.r = "TypeError" THEN "TypeError"
    ELSE IF current_ts.r = "None" THEN "False"
    ELSE IF Len(messages) < 2 THEN "False"
    ELSE
      LET last_ts == parse_infobip_timestamp(messages[Len(messages) - 1].timestamp) IN
      IF last_ts.r = "TypeError" THEN "TypeError"
      ELSE IF last_ts.r = "None" THEN "False"
      ELSE IF current_ts.v - last_ts.v <= CASE_WINDOW THEN "True" ELSE "False"

\* variant: the distance between the two timestamps is taken, whatever the order
has_active_window_Clamped(store, phone, current_ts_str) ==
  LET messages == store[phone] IN
  IF messages = <<>> THEN "False"
  ELSE
    LET current_ts == parse_infobip_timestamp(current_ts_str) IN
    IF current_ts.r = "TypeError" THEN "TypeError"
    ELSE IF current_ts.r = "None" THEN "False"
    ELSE
      LET last_ts == parse_infobip_timestamp(messages[Len(messages)].timestamp) IN
      IF last_ts.r = "TypeError" THEN "TypeError"
      ELSE IF last_ts.r = "None" THEN "False"
      ELSE IF current_ts.v - last_ts.v <= CASE_WINDOW /\ last_ts.v - current_ts.v <= CASE_WINDOW
           THEN "True" ELSE "False"

\* variant: the window needs a strictly earlier previous message
has_active_window_Before(store, phone, current_ts_str) ==
  LET messages == store[phone] IN
  IF messages = <<>> THEN "False"
  ELSE
    LET current_ts == parse_infobip_timestamp(current_ts_str) IN
    IF current_ts.r = "TypeError" THEN "TypeError"
    ELSE IF current_ts.r = "None" THEN "False"
    ELSE
      LET last_ts == parse_infobip_timestamp(messages[Len(messages)].timestamp) IN
      IF last_ts.r = "TypeError" THEN "TypeError"
      ELSE IF last_ts.r = "None" THEN "False"
      ELSE IF current_ts.v - last_ts.v > 0 /\ current_ts.v - last_ts.v <= CASE_WINDOW
           THEN "True" ELSE "False"

\* variant: the empty history is not tested, messages[-1] raises
has_active_window_NoEmptyCheck(store, phone, current_ts_str) ==
  LET messages == store[phone]
      current_ts == parse_infobip_timestamp(current_ts_str)
  IN
  IF current_ts.r = "TypeError" THEN "TypeError"
  ELSE IF current_ts.r = "None" THEN "False"
  ELSE IF messages = <<>> THEN "TypeError"
  ELSE
    LET last_ts == parse_infobip_timestamp(messages[Len(messages)].timestamp) IN
    IF last_ts.r = "TypeError" THEN "TypeError"
    ELSE IF last_ts.r = "None" THEN "False"
    ELSE IF current_ts.v - last_ts.v <= CASE_WINDOW THEN "True" ELSE "False"

has_active_window(store, phone, current_ts_str) ==
  LET messages == store[phone] IN
  IF messages = <<>> THEN "False"
  ELSE
    LET current_ts == parse_infobip_timestamp(current_ts_str) IN
    IF current_ts.r = "TypeError" THEN "TypeError"
    ELSE IF current_ts.r = "None" THEN "False"
    ELSE
      LET last_ts == parse_infobip_timestamp(messages[Len(messages)].timestamp) IN
      IF last_ts.r = "TypeError" THEN "TypeError"
      ELSE IF last_ts.r = "None" THEN "False"
      ELSE IF current_ts.v - last_ts.v <= CASE_WINDOW THEN "True" ELSE "False"

\* variant: the list of the identity is rebuilt with the new entry only
store_in_memory_Replace(store, phone, msg_type, doc_url, timestamp) ==
  [store EXCEPT ![phone] =
     <<[type |-> msg_type, doc_url |-> doc_url, timestamp |-> timestamp]>>]

store_in_memory(store, phone, msg_type, doc_url, timestamp) ==
  [store EXCEPT ![phone] =
     Append(@, [type |-> msg_type, doc_url |-> doc_url, timestamp |-> timestamp])]

\* CASE_STORE.get(phone) is None
NoCase == [case_id |-> 0, last_ts |-> TsNone]

\* variant: the cached record is read under a key it does not have
ReuseCase_WrongKey(active, cached) == active = "True" /\ cached.case_id # cached.case_id

\* active and cached and cached.get("case_id")
ReuseCase(active, cached) == active = "True" /\ cached.case_id # 0

\* variant: a new case is cached for every identity
get_case_for_phone_SharedRecord(cases, store, phone, received_at, createOk, newId) ==
  LET active == has_active_window(store, phone, received_at)
      cached == cases[phone]
  IN
  IF active = "TypeError" THEN
    [exc |-> "TypeError", case_id |-> 0, cases |-> cases, op |-> "TypeError"]
  ELSE IF ReuseCase(active, cached) THEN
    [exc |-> "None", case_id |-> cached.case_id,
     cases |-> [cases EXCEPT ![phone].last_ts = received_at], op |-> "reuse"]
  ELSE IF createOk THEN
    [exc |-> "None", case_id |-> newId,
     cases |-> [p \in DOMAIN cases |-> [case_id |-> newId, last_ts |-> received_at]],
     op |-> "create"]
  ELSE
    [exc |-> "SalesforceError", case_id |-> 0, cases |-> cases, op |-> "create_fail"]

\* variant: the last activity of the identity is written before create_case
\* is called
get_case_for_phone_TouchFirst(cases, store, phone, received_at, createOk, newId) ==
  LET active == has_active_window(store, phone, received_at)
      cached == cases[phone]
  IN
  IF active = "TypeError" THEN
    [exc |-> "TypeError", case_id |-> 0, cases |-> cases, op |-> "TypeError"]
  ELSE IF ReuseCase(active, cached) THEN
    [exc |-> "None", case_id |-> cached.case_id,
     cases |-> [cases EXCEPT ![phone].last_ts = received_at], op |-> "reuse"]
  ELSE IF createOk THEN
    [exc |-> "None", case_id |-> newId,
     cases |-> [cases EXCEPT ![phone] = [case_id |-> newId, last_ts |-> received_at]],
     op |-> "create"]
  ELSE
    [exc |-> "SalesforceError", case_id |-> 0,
     cases |-> [cases EXCEPT ![phone].last_ts = received_at], op |-> "create_fail"]

\* variant: a reuse leaves the last activity of the record as it was
get_case_for_phone_NoTouch(cases, store, phone, received_at, createOk, newId) ==
  LET active == has_active_window(store, phone, received_at)
      cached == cases[phone]
  IN
  IF active = "TypeError" THEN
    [exc |-> "TypeError", case_id |-> 0, cases |-> cases, op |-> "TypeError"]
  ELSE IF ReuseCase(active, cached) THEN
    [exc |-> "None", case_id |-> cached.case_id, cases |-> cases, op |-> "reuse"]
  ELSE IF createOk THEN
    [exc |-> "None", case_id |-> newId,
     cases |-> [cases EXCEPT ![phone] = [case_id |-> newId, last_ts |-> received_at]],
     op |-> "create"]
  ELSE
    [exc |-> "SalesforceError", case_id |-> 0, cases |-> cases, op |-> "create_fail"]

\* variant: a failed creation drops the record of the identity
get_case_for_phone_DropOnFail(cases, store, phone, received_at, createOk, newId) ==
  LET active == has_active_window(store, phone, received_at)
      cached == cases[phone]
  IN
  IF active = "TypeError" THEN
    [exc |-> "TypeError", case_id |-> 0, cases |-> cases, op |-> "TypeError"]
  ELSE IF ReuseCase(active, cached) THEN
    [exc |-> "None", case_id |-> cached.case_id,
     cases |-> [cases EXCEPT ![phone].last_ts = received_at], op |-> "reuse"]
  ELSE IF createOk THEN
    [exc |-> "None", case_id |-> newId,
     cases |-> [cases EXCEPT ![phone] = [case_id |-> newId, last_ts |-> received_at]],
     op |-> "create"]
  ELSE
    [exc |-> "SalesforceError", case_id |-> 0,
     cases |-> [cases EXCEPT ![phone] = NoCase], op |-> "create_fail"]

\* variant: a new case is cached only when the identity has no record yet
get_case_for_phone_KeepFirst(cases, store, phone, received_at, createOk, newId) ==
  LET active == has_active_window(store, phone, received_at)
      cached == cases[phone]
  IN
  IF active = "TypeError" THEN
    [exc |-> "TypeError", case_id |-> 0, cases |-> cases, op |-> "TypeError"]
  ELSE IF ReuseCase(active, cached) THEN
    [exc |-> "None", case_id |-> cached.case_id,
     cases |-> [cases EXCEPT ![phone].last_ts = received_at], op |-> "reuse"]
  ELSE IF createOk THEN
    [exc |-> "None", case_id |-> newId,
     cases |-> IF cached.case_id # 0 THEN cases
               ELSE [cases EXCEPT ![phone] = [case_id |-> newId, last_ts |-> received_at]],
     op |-> "create"]
  ELSE
    [exc |-> "SalesforceError", case_id |-> 0, cases |-> cases, op |-> "create_fail"]

get_case_for_phone(cases, store, phone, received_at, createOk, newId) ==
  LET active == has_active_window(store, phone, received_at)
      cached == cases[phone]
  IN
  IF active = "TypeError" THEN
    [exc |-> "TypeError", case_id |-> 0, cases |-> cases, op |-> "TypeError"]
  ELSE IF ReuseCase(active, cached) THEN
    [exc |-> "None", case_id |-> cached.case_id,
     cases |-> [cases EXCEPT ![phone].last_ts = received_at], op |-> "reuse"]
  ELSE IF createOk THEN
    [exc |-> "None", case_id |-> newId,
     cases |-> [cases EXCEPT ![phone] = [case_id |-> newId, last_ts |-> received_at]],
     op |-> "create"]
  ELSE
    [exc |-> "SalesforceError", case_id |-> 0, cases |-> cases, op |-> "create_fail"]


\* variant: a receipt is recognised only when it has no message body
IsPriceEvent_NoBody(msg) ==
  {"price", "messageId", "to"} \subseteq msg.keys /\ ~("message" \in msg.keys)

\* "price" in msg and "messageId" in msg and "to" in msg
IsPriceEvent(msg) == {"price", "messageId", "to"} \subseteq msg.keys

\* variant: only an event without integrationType is skipped
IsSkipped_TypeOnly(msg) == ~("integrationType" \in msg.keys)

\* not msg.get("integrationType") or "message" not in msg
IsSkipped(msg) == ~("integrationType" \in msg.keys) \/ ~("message" \in msg.keys)

\* variant: only JSON numbers are taken, strings are dropped
float_NumbersOnly(price_raw) ==
  CASE price_raw = "0" -> [r |-> "num", v |-> 0]
    [] price_raw = "-1" -> [r |-> "num", v |-> -1]
    [] price_raw = "1" -> [r |-> "num", v |-> 1]
    [] price_raw = "2" -> [r |-> "num", v |-> 2]
    [] OTHER -> [r |-> "None", v |-> 0]

\* float(price_raw), None when price_raw is None or the conversion raises
float_(price_raw) ==
  CASE price_raw = "null" -> [r |-> "None", v |-> 0]
    [] price_raw = "0" -> [r |-> "num", v |-> 0]
    [] price_raw = "-1" -> [r |-> "num", v |-> -1]
    [] price_raw = "1" -> [r |-> "num", v |-> 1]
    [] price_raw = "2" -> [r |-> "num", v |-> 2]
    [] price_raw = "s:2" -> [r |-> "num", v |-> 2]
    [] OTHER -> [r |-> "None", v |-> 0]

\* variant: a zero price is written too
PriceUpdatable_NonNegative(price_val) == price_val.r = "num" /\ price_val.v >= 0

\* price_val is not None and price_val > 0
PriceUpdatable(price_val) == price_val.r = "num" /\ price_val.v > 0

NoPrice == [exists |-> FALSE, pricePerMessage |-> 0, currency |-> "USD", updatedAt |-> "d1"]

PriceData(v, currency, done_at) ==
  [exists |-> TRUE, pricePerMessage |-> v, currency |-> currency, updatedAt |-> done_at]

\* variant: the acknowledgement is sent whether or not a file was downloaded
MediaSteps_AckAnyway(doc_url, o) ==
  IF doc_url = "None" THEN <<>>
  ELSE IF ~o.download THEN <<"download_none", "ack">>
  ELSE IF ~o.upload THEN <<"download", "attach_fail">>
  ELSE IF o.status = "ok" THEN
    <<"download", "attach", "reset", "ack">>
  ELSE IF o.status = "SalesforceError" THEN
    <<"download", "attach", "reset_fail", "ack">>
  ELSE <<"download", "attach", "reset_raise">>

\* variant: a failed attachment is logged and the steps go on
MediaSteps_SwallowAttach(doc_url, o) ==
  IF doc_url = "None" THEN <<>>
  ELSE IF ~o.download THEN <<"download_none">>
  ELSE IF o.status = "ok" THEN
    <<"download", IF o.upload THEN "attach" ELSE "attach_fail", "reset", "ack">>
  ELSE IF o.status = "SalesforceError" THEN
    <<"download", IF o.upload THEN "attach" ELSE "attach_fail", "reset_fail", "ack">>
  ELSE <<"download", IF o.upload THEN "attach" ELSE "attach_fail", "reset_raise">>

(* The steps taken for a document or image once the case is known; o holds *)
(* the outcome of each external call.                                      *)
MediaSteps(doc_url, o) ==
  IF doc_url = "None" THEN <<>>
  ELSE IF ~o.download THEN <<"download_none">>
  ELSE IF ~o.upload THEN <<"download", "attach_fail">>
  ELSE IF o.status = "ok" THEN
    <<"download", "attach", "reset", "ack">>
  ELSE IF o.status = "SalesforceError" THEN
    <<"download", "attach", "reset_fail", "ack">>
  ELSE <<"download", "attach", "reset_raise">>

(* The try block of the loop body: session on first need, case lookup or   *)
(* creation, then the media steps.  Every exception is caught here.        *)
SalesforceIntegration(sess, cases, store, msg, o, newId) ==
  IF sess = "None" /\ ~o.auth THEN
    [ops |-> <<"auth_fail">>, sess |-> "None", cases |-> cases,
     case_id |-> 0, created |-> FALSE, caught |-> TRUE]
  ELSE
    LET pre == IF sess = "None" THEN <<"auth">> ELSE <<>>
        g == get_case_for_phone(cases, store, msg.from, msg.receivedAt, o.create, newId)
    IN
    IF g.exc # "None" THEN
      [ops |-> pre \o <<g.op>>, sess |-> "session", cases |-> g.cases,
       case_id |-> 0, created |-> FALSE, caught |-> TRUE]
    ELSE
      [ops |-> pre \o <<g.op>> \o MediaSteps(msg.doc_url, o), sess |-> "session",
       cases |-> g.cases, case_id |-> g.case_id, created |-> (g.op = "create"),
       caught |-> TRUE]

\* outcomes of the external calls made for one event; a flag that the event
\* cannot reach is pinned so that each behaviour is drawn once
Outcomes(msg, sess) ==
  {o \in [auth : IF sess = "None" THEN BOOLEAN ELSE {TRUE},
          create : BOOLEAN,
          download : IF msg.doc_url = "None" THEN {TRUE} ELSE BOOLEAN,
          upload : IF msg.doc_url = "None" THEN {TRUE} ELSE BOOLEAN,
          status : IF msg.doc_url = "None" THEN {"ok"}
                   ELSE {"ok", "SalesforceError", "RequestException"}] :
     /\ (~o.auth => o.create)
     /\ (~(o.auth /\ o.create) => o.download)
     /\ (~o.download => o.upload)
     /\ (~o.upload => o.status = "ok")}

(* ------------------------------- state --------------------------------- *)

(* --------------------------- clean_placeholder --------------------------- *)

\* characters: a letter, space, newline, carriage return, tab, form feed
Chars == {"a", "sp", "nl", "cr", "tab", "ff"}

\* what \s and str.strip() take for whitespace
IsSpace(c) == c \in {"sp", "nl", "cr", "tab", "ff"}

\* None, standing for a missing value
NoneValue == [k |-> "None", s |-> <<>>]

Str(s) == [k |-> "str", s |-> s]

\* variant: the carriage return is forgotten
ReplaceControl_NoCR(s) ==
  [i \in 1..Len(s) |-> IF s[i] \in {"nl", "tab"} THEN "sp" ELSE s[i]]

\* value.replace("\n", " ").replace("\r", " ").replace("\t", " ")
ReplaceControl(s) ==
  [i \in 1..Len(s) |-> IF s[i] \in {"nl", "cr", "tab"} THEN "sp" ELSE s[i]]

RECURSIVE RunLen(_)
\* the length of the run of whitespace a string starts with
RunLen(s) ==
  IF s = <<>> \/ ~IsSpace(s[1]) THEN 0 ELSE 1 + RunLen(Tail(s))

RECURSIVE Collapse(_)
\* re.sub(r"\s{2,}", " ", value): every maximal run of two or more whitespace
\* characters becomes one space
Collapse(s) ==
  IF s = <<>> THEN <<>>
  ELSE IF RunLen(s) >= 2 THEN <<"sp">> \o Collapse(SubSeq(s, RunLen(s) + 1, Len(s)))
  ELSE <<s[1]>> \o Collapse(Tail(s))

RECURSIVE Strip(_)
\* value.strip()
Strip(s) ==
  IF s = <<>> THEN <<>>
  ELSE IF IsSpace(s[1]) THEN Strip(Tail(s))
  ELSE IF IsSpace(s[Len(s)]) THEN Strip(SubSeq(s, 1, Len(s) - 1))
  ELSE s

clean_placeholder(v) ==
  IF v.k = "None" \/ v.s = <<>> THEN Str(<<>>)
  ELSE Str(Strip(Collapse(ReplaceControl(v.s))))

\* nothing was cleaned
InitClean ==
  /\ value = NoneValue
  /\ cleaned = NoneValue
  /\ again = NoneValue
  /\ nCleaned = 0

Workers == {"w1", "w2"}

\* the columns run_campaign reads from every row ("Frais,Engages" stands for
\* the accented name of the source)
RequiredColumns ==
  {"full.name.adherent", "Num tele", "D.Consultation", "Frais,Engages", "Observation"}

\* no request is being served by a thread
InitRace == worker = [w \in Workers |-> [pc |-> "idle", msg |-> NoMsg]]

\* no write of the price file is in progress, nothing was read
InitPrice ==
  /\ writer = [pc |-> "idle", data |-> NoPrice]
  /\ before = NoPrice
  /\ observed = [rec |-> NoPrice, prev |-> NoPrice, new |-> NoPrice, concurrent |-> FALSE]

\* the state of the campaign before any launch, but for the configuration
InitCampState ==
  /\ camp_pc = "idle"
  /\ camp_exc = "None"
  /\ route_resp = "none"
  /\ fieldnames = RequiredColumns
  /\ source = <<>>
  /\ rowsRead = 0
  /\ total_with_number = 0
  /\ total_ok = 0
  /\ total_error = 0
  /\ total_cost = 0
  /\ report = <<>>
  /\ sends = <<>>
  /\ outcomes = <<>>
  /\ history = <<>>

\* no campaign was launched; the API key is configured
InitCamp == InitCampState /\ INFOBIP_API_KEY = "key"

\* the stores and the locals of the webhook before any request
InitStores ==
  /\ MESSAGE_STORE = [p \in Phones |-> <<>>]
  /\ CASE_STORE = [p \in Phones |-> NoCase]
  /\ pc = "idle"
  /\ pending = 0
  /\ sf_session = "None"
  /\ response = "none"
  /\ nextId = 1
  /\ nEvents = 0
  /\ last = [msg |-> NoMsg, window |-> "False", case_id |-> 0, path |-> "none"]
  /\ ops = <<>>
  /\ resolved = <<>>
  /\ lastPositive = NoPrice

Init ==
  /\ InitStores
  /\ price_cache = NoPrice
  /\ InitRace
  /\ InitPrice
  /\ InitCamp
  /\ InitClean

\* the price of a receipt is a positive number
PositivePrice(price_raw) == price_raw \in {"1", "2", "s:2"}

\* the number a positive price denotes
PriceNumber(price_raw) == IF price_raw = "1" THEN 1 ELSE 2

\* the record of the most recent receipt with a positive price
TrackPositive(msg) ==
  lastPositive' =
    IF {"price", "messageId", "to"} \subseteq msg.keys /\ PositivePrice(msg.pricePerMessage)
    THEN PriceData(PriceNumber(msg.pricePerMessage), msg.currency, msg.doneAt)
    ELSE lastPositive

(* ------------------------------ actions -------------------------------- *)

\* POST with no results
PostEmpty ==
  /\ UNCHANGED <<raceVars, priceVars, campVars, cleanVars>>
  /\ pc = "idle"
  /\ response' = "no_results"
  /\ UNCHANGED <<MESSAGE_STORE, CASE_STORE, price_cache, pc, pending, sf_session,
                 nextId, nEvents, last, ops, resolved, lastPositive>>

\* POST with n results: the loop starts with no Salesforce session
PostBatch ==
  /\ UNCHANGED <<raceVars, priceVars, campVars, cleanVars>>
  /\ pc = "idle"
  /\ \E n \in 1..MaxBatch :
       /\ n <= MaxEvents - nEvents
       /\ pending' = n
  /\ pc' = "loop"
  /\ sf_session' = "None"
  /\ response' = "none"
  /\ UNCHANGED <<MESSAGE_STORE, CASE_STORE, price_cache, nextId, nEvents, last,
                 ops, resolved, lastPositive>>

\* a delivery receipt: the price record is rewritten when the price is positive
PriceEvent ==
  /\ UNCHANGED <<raceVars, priceVars, campVars, cleanVars>>
  /\ pc = "loop" /\ pending > 0
  /\ \E msg \in Events :
       /\ IsPriceEvent(msg)
       /\ LET price_val == float_(msg.pricePerMessage) IN
          price_cache' = IF PriceUpdatable(price_val)
                         THEN PriceData(price_val.v, msg.currency, msg.doneAt)
                         ELSE price_cache
       /\ last' = [msg |-> msg, window |-> "False", case_id |-> 0, path |-> "price"]
       /\ TrackPositive(msg)
  /\ ops' = <<>>
  /\ pending' = pending - 1
  /\ nEvents' = nEvents + 1
  /\ UNCHANGED <<MESSAGE_STORE, CASE_STORE, pc, sf_session, response, nextId, resolved>>

\* an event without integrationType or message: ignored
SkipEvent ==
  /\ UNCHANGED <<raceVars, priceVars, campVars, cleanVars>>
  /\ pc = "loop" /\ pending > 0
  /\ \E msg \in Events :
       /\ ~IsPriceEvent(msg)
       /\ IsSkipped(msg)
       /\ last' = [msg |-> msg, window |-> "False", case_id |-> 0, path |-> "skip"]
       /\ TrackPositive(msg)
  /\ ops' = <<>>
  /\ pending' = pending - 1
  /\ nEvents' = nEvents + 1
  /\ UNCHANGED <<MESSAGE_STORE, CASE_STORE, price_cache, pc, sf_session, response,
                 nextId, resolved>>

\* a conversation message
MessageEvent ==
  /\ UNCHANGED <<raceVars, priceVars, campVars, cleanVars>>
  /\ pc = "loop" /\ pending > 0
  /\ \E msg \in Events :
       /\ ~IsPriceEvent(msg)
       /\ ~IsSkipped(msg)
       /\ TrackPositive(msg)
       /\ LET active_window == has_active_window(MESSAGE_STORE, msg.from, msg.receivedAt) IN
          IF active_window = "TypeError" THEN
            \* the exception leaves the view: the request fails
            /\ last' = [msg |-> msg, window |-> "TypeError", case_id |-> 0, path |-> "message"]
            /\ ops' = <<"raise">>
            /\ pc' = "idle"
            /\ pending' = 0
            /\ sf_session' = "None"
            /\ response' = "error500"
            /\ UNCHANGED <<MESSAGE_STORE, CASE_STORE, nextId, resolved>>
          ELSE
            \E o \in Outcomes(msg, sf_session) :
              LET store == store_in_memory(MESSAGE_STORE, msg.from, msg.type,
                                           msg.doc_url, msg.receivedAt)
                  sf == SalesforceIntegration(sf_session, CASE_STORE, store, msg, o, nextId)
              IN
              /\ MESSAGE_STORE' = store
              /\ CASE_STORE' = sf.cases
              /\ sf_session' = sf.sess
              /\ nextId' = IF sf.created THEN nextId + 1 ELSE nextId
              /\ resolved' = IF sf.case_id # 0
                             THEN Append(resolved, [phone |-> msg.from, ts |-> msg.receivedAt,
                                                    case_id |-> sf.case_id, created |-> sf.created])
                             ELSE resolved
              /\ last' = [msg |-> msg, window |-> active_window, case_id |-> sf.case_id,
                          path |-> "message"]
              /\ ops' = <<"store">> \o sf.ops
              /\ pending' = pending - 1
              /\ UNCHANGED <<pc, response>>
  /\ nEvents' = nEvents + 1
  /\ UNCHANGED price_cache

\* the loop is over: {"status": "ok"}, 200
Finish ==
  /\ UNCHANGED <<raceVars, priceVars, campVars, cleanVars>>
  /\ pc = "loop" /\ pending = 0
  /\ pc' = "idle"
  /\ response' = "ok"
  /\ sf_session' = "None"
  /\ UNCHANGED <<MESSAGE_STORE, CASE_STORE, price_cache, pending, nextId, nEvents,
                 last, ops, resolved, lastPositive>>

Next == PostEmpty \/ PostBatch \/ PriceEvent \/ SkipEvent \/ MessageEvent \/ Finish

Spec == Init /\ [][Next]_vars

(* ------------------ webhook requests served concurrently ------------------ *)

\* the part of the state the concurrent requests leave alone
raceFrame == <<price_cache, pc, pending, sf_session, response, last, ops, lastPositive,
               priceVars, campVars, cleanVars>>

\* lines 1196-1207 of one request: the window is computed, the event is stored
R_Receive(w) ==
  /\ worker[w].pc = "idle"
  /\ nEvents < MaxEvents
  /\ \E msg \in TextEvents :
       IF has_active_window(MESSAGE_STORE, msg.from, msg.receivedAt) = "TypeError" THEN
         \* the exception leaves the view: this request fails
         UNCHANGED <<MESSAGE_STORE, worker>>
       ELSE
         /\ MESSAGE_STORE' = store_in_memory(MESSAGE_STORE, msg.from, msg.type,
                                             msg.doc_url, msg.receivedAt)
         /\ worker' = [worker EXCEPT ![w] = [pc |-> "stored", msg |-> msg]]
  /\ nEvents' = nEvents + 1
  /\ UNCHANGED <<CASE_STORE, nextId, resolved, raceFrame>>

\* lines 1211-1212: the session request returns, or raises SalesforceError
R_Session(w) ==
  /\ worker[w].pc = "stored"
  /\ \E auth \in BOOLEAN :
       worker' = [worker EXCEPT ![w].pc = IF auth THEN "session" ELSE "idle"]
  /\ UNCHANGED <<MESSAGE_STORE, CASE_STORE, nextId, nEvents, resolved, raceFrame>>

\* lines 232-245: the reuse test on the stores as they are now; a reuse updates
\* the record, otherwise the create_case request leaves
R_Decide(w) ==
  /\ worker[w].pc = "session"
  /\ LET msg == worker[w].msg
         r == get_case_for_phone(CASE_STORE, MESSAGE_STORE, msg.from, msg.receivedAt,
                                 TRUE, nextId)
     IN
     CASE r.op = "reuse" ->
            /\ CASE_STORE' = r.cases
            /\ resolved' = Append(resolved, [phone |-> msg.from, ts |-> msg.receivedAt,
                                             case_id |-> r.case_id, created |-> FALSE])
            /\ worker' = [worker EXCEPT ![w].pc = "idle"]
       [] r.op = "create" ->
            /\ worker' = [worker EXCEPT ![w].pc = "creating"]
            /\ UNCHANGED <<CASE_STORE, resolved>>
       [] OTHER ->
            \* TypeError of the window check, caught at line 1266
            /\ worker' = [worker EXCEPT ![w].pc = "idle"]
            /\ UNCHANGED <<CASE_STORE, resolved>>
  /\ UNCHANGED <<MESSAGE_STORE, nextId, nEvents, raceFrame>>

\* lines 245-253: create_case returns and the record is replaced, or it raises
R_Created(w) ==
  /\ worker[w].pc = "creating"
  /\ LET msg == worker[w].msg IN
     \E create \in BOOLEAN :
       IF create THEN
         /\ CASE_STORE' = [CASE_STORE EXCEPT ![msg.from] =
                             [case_id |-> nextId, last_ts |-> msg.receivedAt]]
         /\ nextId' = nextId + 1
         /\ resolved' = Append(resolved, [phone |-> msg.from, ts |-> msg.receivedAt,
                                          case_id |-> nextId, created |-> TRUE])
       ELSE
         UNCHANGED <<CASE_STORE, nextId, resolved>>
  /\ worker' = [worker EXCEPT ![w].pc = "idle"]
  /\ UNCHANGED <<MESSAGE_STORE, nEvents, raceFrame>>

NextRace ==
  \/ \E w \in Workers : R_Receive(w)
  \/ \E w \in Workers : R_Session(w)
  \/ \E w \in Workers : R_Decide(w)
  \/ \E w \in Workers : R_Created(w)

SpecRace == Init /\ [][NextRace]_vars

(* ------------- the price file written while it is being read -------------- *)

\* the price file between open(PRICE_CACHE_FILE, "w") and the end of json.dump
Truncated == [exists |-> TRUE, pricePerMessage |-> 0, currency |-> "", updatedAt |-> ""]

\* the part of the state a write or a read of the price file leaves alone
priceFrame == <<MESSAGE_STORE, CASE_STORE, pc, pending, sf_session, response, nextId,
                last, ops, resolved, lastPositive, raceVars, campVars, cleanVars>>

\* lines 1097-1127 for one receipt: with a positive price the file is opened
\* for writing, which empties it
P_Open ==
  /\ writer.pc = "idle"
  /\ nEvents < MaxEvents
  /\ \E msg \in ReceiptEvents :
       /\ IsPriceEvent(msg)
       /\ LET price_val == float_(msg.pricePerMessage) IN
          IF PriceUpdatable(price_val) THEN
            /\ before' = price_cache
            /\ price_cache' = Truncated
            /\ writer' = [pc |-> "opened",
                          data |-> PriceData(price_val.v, msg.currency, msg.doneAt)]
          ELSE
            UNCHANGED <<before, price_cache, writer>>
  /\ nEvents' = nEvents + 1
  /\ UNCHANGED <<observed, priceFrame>>

\* line 1128 and the end of the with block: the record reaches the file
P_Dump ==
  /\ writer.pc = "opened"
  /\ price_cache' = writer.data
  /\ writer' = [writer EXCEPT !.pc = "idle"]
  /\ UNCHANGED <<before, observed, nEvents, priceFrame>>

\* currentPrice(): the whole file is read, at any moment
P_Read ==
  /\ observed' = [rec |-> price_cache, prev |-> before, new |-> writer.data,
                  concurrent |-> writer.pc = "opened"]
  /\ UNCHANGED <<price_cache, writer, before, nEvents, priceFrame>>

NextPrice == P_Open \/ P_Dump \/ P_Read

SpecPrice == Init /\ [][NextPrice]_vars

(* ------------------------------ the campaign ------------------------------ *)

\* values of the environment variable INFOBIP_API_KEY: unset, empty, set
ApiKeys == {"None", "", "key"}

\* headers of an uploaded file: complete, or lacking one column
Headers ==
  {RequiredColumns, RequiredColumns \ {"Num tele"}, RequiredColumns \ {"Observation"}}

\* cells of the column "Num tele"
RecipientCells == {"", " ", "n1", " n2"}

RECURSIVE SeqsUpTo(_, _)
\* the sequences over S of length at most n
SeqsUpTo(S, n) ==
  IF n = 0 THEN {<<>>}
  ELSE LET shorter == SeqsUpTo(S, n - 1) IN
       shorter \cup {Append(q, x) : q \in {r \in shorter : Len(r) = n - 1}, x \in S}

Sources == SeqsUpTo(RecipientCells, MaxRows)

\* str.strip() on a cell
strip(cell) ==
  CASE cell = " " -> ""
    [] cell = " n2" -> "n2"
    [] OTHER -> cell

\* the cost field of a response: absent, or a number
NoCost == [some |-> FALSE, v |-> 0]

Cost(v) == [some |-> TRUE, v |-> v]

\* what requests.post does: it raises, or returns a status and a body
SendResults ==
  {[raised |-> TRUE, status_code |-> 0, cout |-> NoCost]}
  \cup {[raised |-> FALSE, status_code |-> st[1], cout |-> st[2]] :
          st \in {<<200, NoCost>>, <<200, Cost(0)>>, <<200, Cost(3)>>, <<299, Cost(3)>>,
                  <<199, NoCost>>, <<300, Cost(3)>>, <<500, NoCost>>}}

\* variant: only an unset key is refused, an empty one is accepted
CredentialsConfigured_NotNone(key) == key # "None"

\* if not INFOBIP_API_KEY: raise RuntimeError
CredentialsConfigured(key) == key # "None" /\ key # ""

\* variant: the cells are read with row.get(column, "")
RowReadable_Lenient(header) == TRUE

\* row["full.name.adherent"] ... row["Observation"]: KeyError when the header
\* lacks one of them
RowReadable(header) == RequiredColumns \subseteq header

\* the recipient cell of a row; a row has cells for the columns of the header
NumeroOf(cell, header) == IF "Num tele" \in header THEN strip(cell) ELSE ""

\* variant: the upper bound is taken inclusive
IsSuccess_Upto300(status_code) == 200 <= status_code /\ status_code <= 300

\* 200 <= resp.status_code < 300
IsSuccess(status_code) == 200 <= status_code /\ status_code < 300

\* the configured default cost of a message
DEFAULT_PRICE == 0

\* a response cost that is absent or exactly zero is not usable
UsableCost(cout) == cout.some /\ cout.v # 0

\* variant: a response without a usable cost is recorded at the default
CostOf_NoFallback(cout, ok, price) ==
  IF UsableCost(cout) THEN cout.v
  ELSE IF ok THEN DEFAULT_PRICE
  ELSE 0

\* the cost of a send: the response's when usable, else for an OK send the
\* last known price, or the default when there is none
CostOf(cout, ok, price) ==
  IF UsableCost(cout) THEN cout.v
  ELSE IF ok THEN (IF price.exists THEN price.pricePerMessage ELSE DEFAULT_PRICE)
  ELSE 0

\* variant: the cost of every attempted row is added
AddCost_Always(total, ok, cost) == total + cost

\* on OK add cost to totalCost
AddCost(total, ok, cost) == IF ok THEN total + cost ELSE total

\* the requests a row with a recipient causes: one call of
\* send_template_message, one requests.post
SendsFor(numero, res) == <<[to |-> numero, raised |-> res.raised]>>

\* the campaign starts with the API key of the environment and the price file
\* as receipts left it
InitCampaign ==
  /\ InitStores
  /\ price_cache \in {NoPrice, PriceData(2, "USD", "d2")}
  /\ InitRace
  /\ InitPrice
  /\ InitCampState
  /\ INFOBIP_API_KEY \in ApiKeys
  /\ InitClean

\* run_campaign_route: no file or not a .csv is refused; otherwise the file is
\* saved, the thread is started and the route answers at once
RunCampaignRoute ==
  /\ camp_pc = "idle"
  /\ \E file \in {"None", "txt", "csv"} :
       CASE file = "None" ->
              /\ route_resp' = "no_file"
              /\ UNCHANGED <<camp_pc, fieldnames, source>>
         [] file = "txt" ->
              /\ route_resp' = "not_csv"
              /\ UNCHANGED <<camp_pc, fieldnames, source>>
         [] OTHER ->
              \E header \in Headers, rows \in Sources :
                /\ fieldnames' = header
                /\ source' = rows
                /\ camp_pc' = "start"
                /\ route_resp' = "launched"
  /\ UNCHANGED <<camp_exc, INFOBIP_API_KEY, rowsRead, total_with_number, total_ok,
                 total_error, total_cost, report, sends, outcomes, history,
                 webVars, raceVars, priceVars, cleanVars>>

\* run_campaign_background calls run_campaign: without an API key it raises
\* RuntimeError, which the thread catches and prints
BgStart ==
  /\ camp_pc = "start"
  /\ IF CredentialsConfigured(INFOBIP_API_KEY) THEN
       /\ camp_pc' = "loop"
       /\ UNCHANGED camp_exc
     ELSE
       /\ camp_pc' = "failed"
       /\ camp_exc' = "RuntimeError"
  /\ UNCHANGED <<route_resp, INFOBIP_API_KEY, fieldnames, source, rowsRead,
                 total_with_number, total_ok, total_error, total_cost, report, sends,
                 outcomes, history, webVars, raceVars, priceVars, cleanVars>>

\* one turn of the loop over the rows: the cells are read, a row without a
\* number is skipped, the others are counted and sent; an exception leaves
\* run_campaign and is caught and printed by the thread
BgRow ==
  /\ camp_pc = "loop"
  /\ rowsRead < Len(source)
  /\ rowsRead' = rowsRead + 1
  /\ LET numero == NumeroOf(source[rowsRead + 1], fieldnames) IN
     IF ~RowReadable(fieldnames) THEN
       /\ camp_pc' = "failed"
       /\ camp_exc' = "KeyError"
       /\ UNCHANGED <<total_with_number, total_ok, total_error, total_cost, report,
                      sends, outcomes>>
     ELSE IF numero = "" THEN
       UNCHANGED <<camp_pc, camp_exc, total_with_number, total_ok, total_error,
                   total_cost, report, sends, outcomes>>
     ELSE
       \E res \in SendResults :
         /\ total_with_number' = total_with_number + 1
         /\ sends' = sends \o SendsFor(numero, res)
         /\ IF res.raised THEN
              /\ camp_pc' = "failed"
              /\ camp_exc' = "RequestException"
              /\ UNCHANGED <<total_ok, total_error, total_cost, report, outcomes>>
            ELSE
              LET ok == IsSuccess(res.status_code)
                  cost == CostOf(res.cout, ok, price_cache)
              IN
              /\ report' = Append(report, [numero |-> numero,
                                           status_code |-> res.status_code,
                                           cout |-> res.cout])
              /\ outcomes' = Append(outcomes,
                                    [httpStatus |-> res.status_code,
                                     providerStatus |-> IF ok THEN "OK" ELSE "Error",
                                     cost |-> cost])
              /\ total_ok' = IF ok THEN total_ok + 1 ELSE total_ok
              /\ total_error' = IF ok THEN total_error ELSE total_error + 1
              /\ total_cost' = AddCost(total_cost, ok, cost)
              /\ UNCHANGED <<camp_pc, camp_exc>>
  /\ UNCHANGED <<route_resp, INFOBIP_API_KEY, fieldnames, source, history,
                 webVars, raceVars, priceVars, cleanVars>>

\* the rows are exhausted: run_campaign returns its summary and the thread
\* appends it to the history
BgFinish ==
  /\ camp_pc = "loop"
  /\ rowsRead = Len(source)
  /\ history' = Append(history, [total_with_number |-> total_with_number,
                                 total_ok |-> total_ok,
                                 total_error |-> total_error,
                                 total_cost |-> total_cost])
  /\ camp_pc' = "done"
  /\ UNCHANGED <<camp_exc, route_resp, INFOBIP_API_KEY, fieldnames, source, rowsRead,
                 total_with_number, total_ok, total_error, total_cost, report, sends,
                 outcomes, webVars, raceVars, priceVars, cleanVars>>

NextCampaign == RunCampaignRoute \/ BgStart \/ BgRow \/ BgFinish

SpecCampaign == InitCampaign /\ [][NextCampaign]_vars

(* ------------------ clean_placeholder on placeholder values ------------------ *)

\* the values a placeholder may have: None, or a string of at most MaxLen
\* characters
PlaceholderValues == {NoneValue} \cup {Str(s) : s \in SeqsUpTo(Chars, MaxLen)}

InitCleaning ==
  /\ InitStores
  /\ price_cache = NoPrice
  /\ InitRace
  /\ InitPrice
  /\ InitCamp
  /\ value \in PlaceholderValues
  /\ cleaned = NoneValue
  /\ again = NoneValue
  /\ nCleaned = 0

\* clean_placeholder(value)
CleanOnce ==
  /\ nCleaned = 0
  /\ cleaned' = clean_placeholder(value)
  /\ nCleaned' = 1
  /\ UNCHANGED <<value, again, webVars, raceVars, priceVars, campVars>>

\* clean_placeholder applied to its own result
CleanAgain ==
  /\ nCleaned = 1
  /\ again' = clean_placeholder(cleaned)
  /\ nCleaned' = 2
  /\ UNCHANGED <<value, cleaned, webVars, raceVars, priceVars, campVars>>

NextClean == CleanOnce \/ CleanAgain

SpecClean == InitCleaning /\ [][NextClean]_vars

(* ------------------------- vocabulary of the claims -------------------- *)

Has(s, x) == \E i \in 1..Len(s) : s[i] = x

\* the event carries the keys price, messageId and to
CarriesTriple(msg) ==
  "price" \in msg.keys /\ "messageId" \in msg.keys /\ "to" \in msg.keys

\* the timestamp is a string in the expected format
Parses(ts) == ts.k = "ok"

\* the history entry store_in_memory makes of an event
EntryOf(msg) == [type |-> msg.type, doc_url |-> msg.doc_url, timestamp |-> msg.receivedAt]

\* this step handles one event of the payload
EventStep == nEvents' = nEvents + 1

\* this step handles a conversation message of an identity whose previous
\* stored event and whose own timestamp both parse
SuccessiveStep ==
  /\ EventStep
  /\ last'.path = "message"
  /\ MESSAGE_STORE[last'.msg.from] # <<>>
  /\ Parses(last'.msg.receivedAt)
  /\ Parses(MESSAGE_STORE[last'.msg.from][Len(MESSAGE_STORE[last'.msg.from])].timestamp)

\* hours from the previous stored event of the identity to this one
Elapsed ==
  last'.msg.receivedAt.h
    - MESSAGE_STORE[last'.msg.from][Len(MESSAGE_STORE[last'.msg.from])].timestamp.h

(* --------------------------------- C1 ---------------------------------- *)

\* C1: when the second of two successive events of an identity is stamped
\* more than CASE_WINDOW after the first and a case is resolved for it,
\* create_case is called and the cached case id is the new id.
C1_NewCaseAfterWindow ==
  [][(SuccessiveStep /\ Elapsed > CASE_WINDOW /\ last'.case_id # 0)
       => (Has(ops', "create") /\ CASE_STORE'[last'.msg.from].case_id = nextId)]_vars

(* --------------------------------- C2 ---------------------------------- *)

C4_ReceiptLeavesCorrelator ==
  [][(EventStep /\ CarriesTriple(last'.msg))
       => (/\ MESSAGE_STORE' = MESSAGE_STORE
           /\ CASE_STORE' = CASE_STORE
           /\ resolved' = resolved
           /\ nextId' = nextId
           /\ ops' = <<>>)]_vars

\* a receipt that also has integrationType and message was handled after a
\* conversation message
C4_Witness ==
  /\ last.msg.keys = AllKeys
  /\ last.path = "price"
  /\ MESSAGE_STORE["p1"] # <<>>
  /\ CASE_STORE["p1"].case_id # 0

(* --------------------------------- C5 ---------------------------------- *)

\* C5: a delivery receipt whose price is zero, negative, absent or not a
\* number leaves the price record as it was.
C5_NonPositiveKeepsPrice ==
  [][(EventStep /\ CarriesTriple(last'.msg) /\ ~PositivePrice(last'.msg.pricePerMessage))
       => price_cache' = price_cache]_vars

\* a receipt without a positive price was handled while a record existed
C5_Witness ==
  /\ price_cache.exists
  /\ CarriesTriple(last.msg)
  /\ last.msg.pricePerMessage \in {"0", "-1", "null", "s:abc"}
  /\ nEvents = 2

(* --------------------------------- C6 ---------------------------------- *)

\* C6: the price record is that of the most recent receipt with a positive
\* price, and there is none when no receipt had one.
C6_PriceIsLastPositive == price_cache = lastPositive

\* the record comes from a receipt whose price arrived as a string
C6_Witness ==
  /\ price_cache = PriceData(2, "USD", "d1")
  /\ last.msg.pricePerMessage = "s:2"
  /\ nEvents = 2

(* --------------------------------- C7 ---------------------------------- *)

\* C7: every POST is answered with a success acknowledgement.
C7_AlwaysAcknowledged == response \in {"none", "ok", "no_results"}

(* --------------------------------- C8 ---------------------------------- *)

\* C8: when session creation, create_case or the attachment fails for a
\* conversation event, the event is in the history, nothing is attached,
\* no status is reset, no acknowledgement is sent, and the loop goes on to
\* the next event.
C8_TicketingFailureIsolated ==
  [][(/\ EventStep
      /\ (Has(ops', "auth_fail") \/ Has(ops', "create_fail") \/ Has(ops', "attach_fail")))
       => (/\ MESSAGE_STORE' = [MESSAGE_STORE EXCEPT ![last'.msg.from] =
                                  Append(@, EntryOf(last'.msg))]
           /\ ~Has(ops', "attach")
           /\ ~Has(ops', "reset") /\ ~Has(ops', "reset_fail") /\ ~Has(ops', "reset_raise")
           /\ ~Has(ops', "ack")
           /\ pc' = "loop"
           /\ pending' = pending - 1
           /\ response' = response)]_vars

\* an attachment failed and the loop still has an event to handle
C8_Witness ==
  /\ Has(ops, "attach_fail")
  /\ pc = "loop"
  /\ pending = 1
  /\ MESSAGE_STORE[last.msg.from] # <<>>

(* --------------------------------- C9 ---------------------------------- *)

\* C9: for an identity with no history has_active_window is false for every
\* timestamp, and so is the window computed for its first stored event.
C9_NoHistoryNoWindow ==
  /\ \A p \in Phones :
       MESSAGE_STORE[p] = <<>>
         => \A ts \in Timestamps : has_active_window(MESSAGE_STORE, p, ts) = "False"
  /\ (last.path = "message" /\ Has(ops, "store")
        /\ Len(MESSAGE_STORE[last.msg.from]) = 1)
       => last.window = "False"

\* the first event of an identity, with a timestamp that parses
C9_Witness ==
  /\ last.path = "message"
  /\ Len(MESSAGE_STORE[last.msg.from]) = 1
  /\ Parses(last.msg.receivedAt)
  /\ last.window = "False"
  /\ \E p \in Phones : MESSAGE_STORE[p] = <<>>

(* --------------------------------- C10 --------------------------------- *)

\* C10: has_active_window is false, and never raises, when the current or
\* the last stored timestamp does not parse; an event with such a timestamp
\* raises nothing and reuses no cached case.
C10_UnparsableNeverRaises ==
  /\ \A p \in Phones : \A ts \in Timestamps :
       (\/ ~Parses(ts)
        \/ (MESSAGE_STORE[p] # <<>>
              /\ ~Parses(MESSAGE_STORE[p][Len(MESSAGE_STORE[p])].timestamp)))
         => has_active_window(MESSAGE_STORE, p, ts) = "False"
  /\ (last.path = "message" /\ ~Parses(last.msg.receivedAt))
       => (~Has(ops, "raise") /\ ~Has(ops, "TypeError") /\ ~Has(ops, "reuse"))

(* --------------------------------- C11 --------------------------------- *)

\* ids of the cases created for an identity, oldest first
CreatedFor(p) ==
  SelectSeq(resolved, LAMBDA r : r.phone = p /\ r.created)

\* C11: the cache holds one record per identity, and its case id is the id
\* of the most recent successful create_case for that identity (none when
\* no case was created for it).
C11_CacheIsLastCreated ==
  \A p \in Phones :
    CASE_STORE[p].case_id =
      IF CreatedFor(p) = <<>> THEN 0
      ELSE CreatedFor(p)[Len(CreatedFor(p))].case_id

\* a second case was created for an identity and replaced the first
C11_Witness ==
  \E p \in Phones :
    /\ Len(CreatedFor(p)) = 2
    /\ CASE_STORE[p].case_id = CreatedFor(p)[2].case_id
    /\ CreatedFor(p)[1].case_id # CreatedFor(p)[2].case_id

(* --------------------------------- C12 --------------------------------- *)

\* C12: every step keeps the history of every identity as a prefix of the
\* new history, and a stored event is appended at the end of the history of
\* its identity.
C12_HistoryAppendOnly ==
  [][/\ \A p \in Phones :
          /\ Len(MESSAGE_STORE'[p]) >= Len(MESSAGE_STORE[p])
          /\ SubSeq(MESSAGE_STORE'[p], 1, Len(MESSAGE_STORE[p])) = MESSAGE_STORE[p]
     /\ (EventStep /\ Has(ops', "store"))
          => MESSAGE_STORE' = [MESSAGE_STORE EXCEPT ![last'.msg.from] =
                                 Append(@, EntryOf(last'.msg))]]_vars

\* an identity has two different entries, in the order of arrival
C12_Witness ==
  /\ last.path = "message"
  /\ Has(ops, "store")
  /\ LET h == MESSAGE_STORE[last.msg.from] IN
     /\ Len(h) = 2
     /\ h[1] # h[2]
     /\ h[2] = EntryOf(last.msg)


(* --------------------------------- C13 --------------------------------- *)

\* two tickets were created for one identity by events stamped within one
\* active window of each other
TwoTicketsInWindow(p) ==
  \E i, j \in 1..Len(resolved) :
    /\ i < j
    /\ resolved[i].phone = p /\ resolved[j].phone = p
    /\ resolved[i].created /\ resolved[j].created
    /\ Parses(resolved[i].ts) /\ Parses(resolved[j].ts)
    /\ resolved[j].ts.h - resolved[i].ts.h <= CASE_WINDOW
    /\ resolved[i].ts.h - resolved[j].ts.h <= CASE_WINDOW

\* C13: when deliveries for one identity are handled concurrently, the history
\* append and the reuse-versus-create decision of one delivery exclude those of
\* another, so that at most one ticket is created for the identity within one
\* active window.
C13_NoDuplicateTicket == \A p \in Phones : ~TwoTicketsInWindow(p)

(* --------------------------------- C14 --------------------------------- *)

\* C14: a read of the price record made while a webhook-triggered write of it
\* is in progress sees the complete previous record or the complete new one,
\* never an empty or partly written record.
C14_ReadSeesWholeRecord ==
  observed.concurrent => observed.rec \in {observed.prev, observed.new}


(* ------------------------- campaign vocabulary -------------------------- *)

\* the background thread is over, by a return or by a caught exception
Ended == camp_pc \in {"done", "failed"}

\* the header of the uploaded file lacks a required column
MissingColumn == ~(RequiredColumns \subseteq fieldnames)

RECURSIVE Recipients(_)
\* the rows of a source whose recipient is not empty after trimming
Recipients(rows) ==
  IF rows = <<>> THEN 0
  ELSE Recipients(SubSeq(rows, 1, Len(rows) - 1))
         + (IF strip(rows[Len(rows)]) = "" THEN 0 ELSE 1)

(* --------------------------------- C15 --------------------------------- *)

\* C15: the route acknowledges the launch without waiting for the campaign,
\* and every campaign dispatched to the background ends with exactly one
\* summary record appended to the run history.
C15_OneSummaryPerCampaign ==
  /\ camp_pc # "idle" => route_resp = "launched"
  /\ Len(history) <= 1
  /\ Ended => Len(history) = 1

(* --------------------------------- C16 --------------------------------- *)

\* C16: an exception raised while sending a row does not abort the batch: the
\* row is counted as an error, its report row is written, and the run goes on
\* to the following rows.
C16_SendExceptionIsolated ==
  \A i \in 1..Len(sends) :
    sends[i].raised =>
      /\ camp_pc # "failed"
      /\ Len(report) >= i
      /\ total_error >= 1

(* --------------------------------- C17 --------------------------------- *)

\* C17: a row whose recipient is empty after trimming causes no send, no
\* report row and no counter change: a run over a source of n rows, k of them
\* with an empty recipient, ends with rowsWithRecipient = n - k, n - k sends
\* and n - k report rows.
C17_EmptyRecipientExcluded ==
  (Ended /\ INFOBIP_API_KEY = "key" /\ ~MissingColumn) =>
    /\ total_with_number = Recipients(source)
    /\ Len(sends) = Recipients(source)
    /\ Len(report) = Recipients(source)


(* --------------------------------- C18 --------------------------------- *)

C19_NoCredentialsNoStart ==
  INFOBIP_API_KEY \in {"None", ""} =>
    /\ camp_pc \in {"idle", "start", "failed"}
    /\ camp_pc = "failed" => camp_exc = "RuntimeError"
    /\ rowsRead = 0
    /\ sends = <<>>
    /\ report = <<>>

C19_Witness ==
  /\ INFOBIP_API_KEY = ""
  /\ ~MissingColumn
  /\ Len(source) >= 1 /\ strip(source[1]) # ""
  /\ camp_pc = "failed" /\ camp_exc = "RuntimeError"
  /\ rowsRead = 0 /\ sends = <<>>

(* --------------------------------- C20 --------------------------------- *)

RECURSIVE SumCostOK(_)
\* the sum of the cost over the outcomes whose provider status is OK
SumCostOK(outs) ==
  IF outs = <<>> THEN 0
  ELSE SumCostOK(SubSeq(outs, 1, Len(outs) - 1))
         + (IF outs[Len(outs)].providerStatus = "OK" THEN outs[Len(outs)].cost ELSE 0)

RECURSIVE RecipientsOf(_)
\* the recipients of the rows of a source, trimmed, in source order
RecipientsOf(rows) ==
  IF rows = <<>> THEN <<>>
  ELSE LET front == RecipientsOf(SubSeq(rows, 1, Len(rows) - 1))
           numero == strip(rows[Len(rows)])
       IN IF numero = "" THEN front ELSE Append(front, numero)

\* the report rows whose status is outside 200..299
ErrorRows == {i \in 1..Len(report) : report[i].status_code < 200 \/ report[i].status_code > 299}

\* C22: the rows are processed in source order with exactly one send request
\* for each row that has a recipient, never a second one; a response outside
\* 2xx is counted as an error and the run goes on with the next row.
C22_InOrderOneSendEach ==
  /\ rowsRead <= Len(source)
  /\ ~MissingColumn =>
       [i \in 1..Len(sends) |-> sends[i].to] = RecipientsOf(SubSeq(source, 1, rowsRead))
  /\ total_error = Cardinality(ErrorRows)
  /\ (Ended /\ INFOBIP_API_KEY = "key" /\ ~MissingColumn) =>
       [i \in 1..Len(sends) |-> sends[i].to] = RecipientsOf(source)

(* --------------------------------- C23 --------------------------------- *)

\* C23: a send is classified OK if and only if the HTTP status of the response
\* is in 200..299; any other status is an Error, whatever the body carries.
C23_SuccessIff2xx ==
  /\ \A i \in 1..Len(report) :
       /\ outcomes[i].providerStatus = "OK" <=> report[i].status_code \in 200..299
       /\ outcomes[i].providerStatus = "Error" <=> report[i].status_code \notin 200..299
  /\ total_ok = Cardinality((1..Len(report)) \ ErrorRows)
  /\ total_error = Cardinality(ErrorRows)

C23_Witness ==
  /\ Len(report) = 3
  /\ report[1].status_code = 199 /\ outcomes[1].providerStatus = "Error"
  /\ report[2].status_code = 299 /\ outcomes[2].providerStatus = "OK"
  /\ report[3].status_code = 300 /\ report[3].cout = Cost(3)
  /\ outcomes[3].providerStatus = "Error"
  /\ total_ok = 1 /\ total_error = 2

(* --------------------------------- C24 --------------------------------- *)

\* C24: after the header row, which is written before the run, the report
\* holds exactly one outcome row for each processed row of the run, written
\* when the row is sent and in the order of the source rows.
C24_OneReportRowPerProcessedRow ==
  /\ Len(report) = Len(sends)
  /\ \A i \in 1..Len(report) : report[i].numero = sends[i].to

(* --------------------------------- C25 --------------------------------- *)

\* C25: the result of clean_placeholder holds no newline, carriage return or
\* tab, no two adjacent whitespace characters, no whitespace at either end,
\* and cleaning it again gives the same string.
C25_CleanIsNormalForm ==
  /\ nCleaned >= 1 =>
       /\ cleaned.k = "str"
       /\ \A i \in 1..Len(cleaned.s) : cleaned.s[i] \notin {"nl", "cr", "tab"}
       /\ \A i \in 1..(Len(cleaned.s) - 1) :
            ~(IsSpace(cleaned.s[i]) /\ IsSpace(cleaned.s[i + 1]))
       /\ cleaned.s # <<>> =>
            (~IsSpace(cleaned.s[1]) /\ ~IsSpace(cleaned.s[Len(cleaned.s)]))
  /\ nCleaned = 2 => again = cleaned

C25_Witness ==
  /\ nCleaned = 2
  /\ value = Str(<<"a", "cr", "nl", "a">>)
  /\ cleaned = Str(<<"a", "sp", "a">>)
  /\ again = cleaned

(* --------------------------------- C26 --------------------------------- *)

\* C26: has_active_window returns true exactly when the identity has a
\* history entry, the timestamp of the last entry parses, the event's
\* timestamp parses, and the event's timestamp minus the last entry's is at
\* most the window; the difference is not clamped, so an event stamped before
\* the last entry counts as active.
C26_WindowIff ==
  [][(EventStep /\ last'.path = "message") =>
       LET m == last'.msg
           h == MESSAGE_STORE[m.from]
       IN (last'.window = "True") <=>
            (/\ h # <<>>
             /\ Parses(h[Len(h)].timestamp)
             /\ Parses(m.receivedAt)
             /\ m.receivedAt.h - h[Len(h)].timestamp.h <= CASE_WINDOW)]_vars

C26_Witness ==
  /\ last.path = "message"
  /\ last.window = "True"
  /\ LET h == MESSAGE_STORE[last.msg.from] IN
       /\ Len(h) = 2
       /\ h[1].timestamp = TsOk(MaxHour)
       /\ h[2].timestamp = TsOk(0)
       /\ last.msg.receivedAt = TsOk(0)

(* --------------------------------- C27 --------------------------------- *)

\* C27: when get_case_for_phone reuses a ticket, it sets the last activity of
\* the identity's record to the event's timestamp, keeps the ticket id of the
\* record and returns it, leaves the record of every other identity as it
\* was, and does not call create_case.
C27_ReuseFrame ==
  [][(EventStep /\ Has(ops', "reuse")) =>
       LET m == last'.msg IN
       /\ CASE_STORE[m.from].case_id # 0
       /\ CASE_STORE'[m.from].last_ts = m.receivedAt
       /\ CASE_STORE'[m.from].case_id = CASE_STORE[m.from].case_id
       /\ last'.case_id = CASE_STORE[m.from].case_id
       /\ \A q \in Phones \ {m.from} : CASE_STORE'[q] = CASE_STORE[q]
       /\ ~Has(ops', "create") /\ ~Has(ops', "create_fail")
       /\ nextId' = nextId]_vars

C27_Witness ==
  /\ Has(ops, "reuse")
  /\ Len(resolved) = 2
  /\ resolved[1].created /\ ~resolved[2].created
  /\ resolved[1].phone = resolved[2].phone
  /\ resolved[1].ts # resolved[2].ts
  /\ CASE_STORE[resolved[2].phone] =
       [case_id |-> resolved[1].case_id, last_ts |-> resolved[2].ts]

(* --------------------------------- C28 --------------------------------- *)

\* get_case_for_phone was called for the event of this step
CaseLookupStep == EventStep /\ Has(ops', "store") /\ ~Has(ops', "auth_fail")

\* C28: when get_case_for_phone does not reuse, it calls create_case exactly
\* once and, the call having returned, replaces the record of the identity by
\* the new ticket id with the event's timestamp as last activity and returns
\* the new ticket id.
C28_CreateWhenNotReused ==
  [][(CaseLookupStep /\ ~Has(ops', "reuse")) =>
       LET m == last'.msg IN
       /\ Has(ops', "create") \/ Has(ops', "create_fail")
       /\ Has(ops', "create") =>
            /\ CASE_STORE'[m.from] = [case_id |-> nextId, last_ts |-> m.receivedAt]
            /\ last'.case_id = nextId
            /\ nextId' = nextId + 1]_vars

(* --------------------------------- C29 --------------------------------- *)

\* C29: an identity that has a ticket record in the cache has one in every
\* later state: a record is updated or replaced, never removed.
C29_RecordNeverRemoved ==
  [][\A p \in Phones :
       CASE_STORE[p].case_id # 0 => CASE_STORE'[p].case_id # 0]_vars

C29_Witness ==
  /\ last.path = "message"
  /\ Has(ops, "create_fail")
  /\ Len(resolved) = 1
  /\ resolved[1].phone = last.msg.from
  /\ CASE_STORE[last.msg.from] = [case_id |-> resolved[1].case_id, last_ts |-> resolved[1].ts]

(* --------------------------------- C30 --------------------------------- *)

\* the media of the event of this step gave no payload: the download failed,
\* or the event had no URL to download
NoPayloadStep ==
  /\ EventStep
  /\ last'.path = "message"
  /\ last'.msg.type = "DOCUMENT"
  /\ last'.case_id # 0
  /\ Has(ops', "download_none") \/ last'.msg.doc_url = "None"

\* C30: when the media of a document or image event yields no payload, no
\* attachment is made, the ticket status is not reset, no acknowledgement is
\* sent, the loop goes on with the next event, and the ticket resolved for
\* the event stays in the cache.
C30_NoPayloadNoAttachment ==
  [][NoPayloadStep =>
       /\ \A t \in {"download", "attach", "attach_fail", "reset", "reset_fail",
                    "reset_raise", "ack"} : ~Has(ops', t)
       /\ pc' = "loop"
       /\ pending' = pending - 1
       /\ CASE_STORE'[last'.msg.from].case_id = last'.case_id]_vars

C30_Witness ==
  /\ last.path = "message"
  /\ Has(ops, "download_none")
  /\ ~Has(ops, "ack")
  /\ last.case_id # 0
  /\ CASE_STORE[last.msg.from].case_id = last.case_id
  /\ pc = "loop" /\ pending = 1

(* --------------------------------- C31 --------------------------------- *)

\* position of the first occurrence of x in s, 0 when s does not hold it
IndexOf(s, x) == IF Has(s, x) THEN CHOOSE i \in 1..Len(s) : s[i] = x /\ \A j \in 1..(i - 1) : s[j] # x
                 ELSE 0

\* the status reset was attempted for the event: it returned or it failed
ResetAttempted(s) == Has(s, "reset") \/ Has(s, "reset_fail") \/ Has(s, "reset_raise")

\* C31: for a media event the steps come in the order ticket resolved, media
\* downloaded, file attached, status reset attempted, acknowledgement sent; an
\* acknowledgement is sent only after the attachment succeeded, and once the
\* file is attached the acknowledgement is sent whether the status reset
\* succeeded or failed.
C31_MediaStepsOrdered ==
  /\ Has(ops, "ack") =>
       LET resolve == IF Has(ops, "reuse") THEN IndexOf(ops, "reuse") ELSE IndexOf(ops, "create")
           reset == IF Has(ops, "reset") THEN IndexOf(ops, "reset") ELSE IndexOf(ops, "reset_fail")
       IN /\ 0 < resolve
          /\ resolve < IndexOf(ops, "download")
          /\ IndexOf(ops, "download") < IndexOf(ops, "attach")
          /\ IndexOf(ops, "attach") < reset
          /\ reset < IndexOf(ops, "ack")
          /\ IndexOf(ops, "ack") = Len(ops)
  /\ (Has(ops, "attach") /\ ResetAttempted(ops)) => Has(ops, "ack")

(* --------------------------------- C32 --------------------------------- *)

\* the event lacks integrationType or a message body
LacksConversationKeys(msg) ==
  ~("integrationType" \in msg.keys /\ "message" \in msg.keys)

\* the step touched the correlator: history, ticket cache, session or a
\* ticketing call
ReachesCorrelator ==
  \/ MESSAGE_STORE' # MESSAGE_STORE
  \/ CASE_STORE' # CASE_STORE
  \/ resolved' # resolved
  \/ nextId' # nextId
  \/ ops' # <<>>

\* C32: an event with the keys price, messageId and to goes only to the price
\* path; an event without the triple that lacks integrationType or a message
\* body is skipped and changes nothing; only the remaining events reach the
\* history append and the ticket resolution.
C32_RoutedByStructure ==
  [][EventStep =>
       LET m == last'.msg IN
       /\ CarriesTriple(m) => (last'.path = "price" /\ ~ReachesCorrelator)
       /\ (~CarriesTriple(m) /\ LacksConversationKeys(m)) =>
            /\ last'.path = "skip"
            /\ ~ReachesCorrelator
            /\ UNCHANGED <<price_cache, sf_session, pc, response>>
       /\ ReachesCorrelator => (~CarriesTriple(m) /\ ~LacksConversationKeys(m))
       /\ price_cache' # price_cache => CarriesTriple(m)]_vars

\* a status event that has a message body and part of the triple, but no
\* integrationType, was skipped after a conversation message of the batch
C32_Witness ==
  /\ last.path = "skip"
  /\ last.msg.keys = {"price", "messageId", "message"}
  /\ MESSAGE_STORE["p1"] # <<>>
  /\ CASE_STORE["p1"].case_id # 0
  /\ sf_session = "session"
  /\ nEvents = 2

(* --------------------------------- C33 --------------------------------- *)

\* C33: after every row of a campaign run, and when the run has ended, the
\* rows with a recipient are the successes plus the errors, and none of the
\* three counters ever decreases.
C33_CountersBalanced ==
  [][/\ total_with_number' = total_ok' + total_error'
     /\ total_with_number' >= total_with_number
     /\ total_ok' >= total_ok
     /\ total_error' >= total_error]_vars

(* --------------------------------- C34 --------------------------------- *)

\* this step handles a conversation message, with a timestamp that parses,
\* of an identity that has a cached ticket
CachedIdentityStep ==
  /\ EventStep
  /\ last'.path = "message"
  /\ Parses(last'.msg.receivedAt)
  /\ CASE_STORE[last'.msg.from].case_id # 0

C35_HistoryCountsMessages ==
  [][IF EventStep /\ last'.path = "message"
     THEN LET m == last'.msg IN
          /\ MESSAGE_STORE' = [MESSAGE_STORE EXCEPT ![m.from] = Append(@, EntryOf(m))]
          /\ ops' # <<>> /\ ops'[1] = "store"
     ELSE MESSAGE_STORE' = MESSAGE_STORE]_vars

(* --------------------------------- C36 --------------------------------- *)

\* the session creation or create_case failed for the event of this step
TicketingFailedStep ==
  EventStep /\ (Has(ops', "auth_fail") \/ Has(ops', "create_fail"))

\* C36: when the session creation or create_case fails for an event, the
\* ticket cache is left exactly as it was: a cached record keeps its ticket
\* id and last activity, no record is added for an identity without one, and
\* no ticket id is consumed or resolved.
C36_FailureLeavesCache ==
  [][TicketingFailedStep =>
       /\ CASE_STORE' = CASE_STORE
       /\ resolved' = resolved
       /\ nextId' = nextId
       /\ last'.case_id = 0]_vars

\* create_case failed for an event of an identity that had a cached ticket:
\* the record still has the id and the last activity of the earlier event
C36_Witness ==
  /\ last.path = "message"
  /\ ops[Len(ops)] = "create_fail"
  /\ ~Parses(last.msg.receivedAt)
  /\ Len(resolved) = 1
  /\ resolved[1].phone = last.msg.from
  /\ Parses(resolved[1].ts)
  /\ CASE_STORE[last.msg.from].case_id = resolved[1].case_id
  /\ CASE_STORE[last.msg.from].last_ts = resolved[1].ts
  /\ CASE_STORE[last.msg.from].last_ts # last.msg.receivedAt
  /\ \A p \in Phones \ {last.msg.from} : CASE_STORE[p] = NoCase

(* --------------------------------- C37 --------------------------------- *)

\* the event of some history entry of the identity carried this timestamp
StoredWith(p, ts) ==
  \E i \in 1..Len(MESSAGE_STORE[p]) : MESSAGE_STORE[p][i].timestamp = ts

\* C37: every identity that has a record in the ticket cache has a non-empty
\* message history, the ticket id of the record is an id create_case
\* returned for that identity, and the last activity of the record is the
\* timestamp of a stored event of the identity.
C37_CacheBackedByHistory ==
  \A p \in Phones :
    CASE_STORE[p].case_id # 0 =>
      /\ MESSAGE_STORE[p] # <<>>
      /\ \E i \in 1..Len(resolved) :
           /\ resolved[i].phone = p
           /\ resolved[i].created
           /\ resolved[i].case_id = CASE_STORE[p].case_id
      /\ \A q \in Phones \ {p} :
           \A i \in 1..Len(resolved) :
             resolved[i].phone = q => resolved[i].case_id # CASE_STORE[p].case_id
      /\ StoredWith(p, CASE_STORE[p].last_ts)

\* one identity has a cached ticket and a history, the other has a history
\* (its ticketing failed) and no record
C37_Witness ==
  /\ CASE_STORE["p1"].case_id # 0
  /\ MESSAGE_STORE["p1"] # <<>>
  /\ CASE_STORE["p2"] = NoCase
  /\ MESSAGE_STORE["p2"] # <<>>
  /\ Len(resolved) = 1
  /\ resolved[1].phone = "p1" /\ resolved[1].created
  /\ resolved[1].case_id = CASE_STORE["p1"].case_id

(* --------------------------------- C38 --------------------------------- *)

\* an authentication request was made for the event
AuthRequested(s) == Has(s, "auth") \/ Has(s, "auth_fail")

\* C38: within one webhook call the ticketing session is obtained on first
\* need: a receipt or a status event makes no authentication request, no
\* request is made once the call has a session, and after a failed
\* authentication the next conversation message of the call makes a new
\* request.
C38_SessionObtainedLazily ==
  [][EventStep =>
       /\ last'.path \in {"price", "skip"} =>
            (~AuthRequested(ops') /\ sf_session' = sf_session)
       /\ sf_session = "session" => ~AuthRequested(ops')
       /\ (Has(ops, "auth_fail") /\ sf_session = "None" /\ last'.path = "message") =>
            AuthRequested(ops')]_vars

====
